---- MODULE Spec2Model ----
(***************************************************************************)
(* Model of osquery/tables/system/linux/mdstat.cpp: the /proc/mdstat       *)
(* parser (getLines, parseMDStat) and the three table generators           *)
(* genMDDevices, genMDDrives and genMDPersonalities.                        *)
(*                                                                         *)
(* A std::string is a sequence of characters; a character is a one-letter  *)
(* TLA+ string.  Positions are 0-based as in the source, NPOS stands for   *)
(* std::string::npos.                                                      *)
(***************************************************************************)
EXTENDS Integers, Sequences, FiniteSets, TLC

\* ------------------------------------------------------------------------
\* Characters and std::string primitives
\* ------------------------------------------------------------------------
TAB == "\t"
CR == "\r"
VT == "<VT>"
NL == "\n"
FF == "\f"
SP == " "

NPOS == -1

\* std::isspace in the "C" locale, used by boost::algorithm::trim
IsSpace == {SP, TAB, CR, VT, NL, FF}

\* the argument of find_first_not_of in getLines
kBlankChars == {TAB, CR, VT, SP}

SetMin(S) == CHOOSE x \in S : \A y \in S : x <= y
SetMax(S) == CHOOSE x \in S : \A y \in S : x >= y

\* s.find(pat): position of the first occurrence of pat, or NPOS
Find(s, pat) ==
  LET hits == {i \in 0..(Len(s) - Len(pat)) :
                 SubSeq(s, i + 1, i + Len(pat)) = pat}
  IN IF hits = {} THEN NPOS ELSE SetMin(hits)

\* s.find_first_not_of(cs) and s.find_last_not_of(cs)
FindFirstNotOf(s, cs) ==
  LET hits == {i \in 0..(Len(s) - 1) : s[i + 1] \notin cs}
  IN IF hits = {} THEN NPOS ELSE SetMin(hits)

FindLastNotOf(s, cs) ==
  LET hits == {i \in 0..(Len(s) - 1) : s[i + 1] \notin cs}
  IN IF hits = {} THEN NPOS ELSE SetMax(hits)

\* s.substr(pos) and s.substr(pos, cnt) for pos <= s.size(); the callers
\* decide what happens when pos > s.size() (std::out_of_range)
SubstrFrom(s, pos) == SubSeq(s, pos + 1, Len(s))

Substr(s, pos, cnt) ==
  SubSeq(s, pos + 1, IF pos + cnt > Len(s) THEN Len(s) ELSE pos + cnt)

\* void trimStr(std::string& s, const char c = ' ')
trimStr(s, c) ==
  LET first == FindFirstNotOf(s, {c})
      last == FindLastNotOf(s, {c})
  IN IF first = NPOS THEN s ELSE SubSeq(s, first + 1, last + 1)

\* void trimStr(std::vector<std::string>& strs, const char c = ' ')
trimStrs(strs, c) == [i \in 1..Len(strs) |-> trimStr(strs[i], c)]

\* boost::algorithm::trim, applied by split to every token
BoostTrim(s) ==
  LET first == FindFirstNotOf(s, IsSpace)
      last == FindLastNotOf(s, IsSpace)
  IN IF first = NPOS THEN <<>> ELSE SubSeq(s, first + 1, last + 1)

\* boost::split(elems, s, is_any_of(delims)): the pieces between delimiters,
\* empty pieces included
RECURSIVE RawSplit(_, _, _)
RawSplit(s, delims, cur) ==
  IF s = <<>> THEN <<cur>>
  ELSE IF Head(s) \in delims
       THEN <<cur>> \o RawSplit(Tail(s), delims, <<>>)
       ELSE RawSplit(Tail(s), delims, Append(cur, Head(s)))

\* osquery::split(s, delim): empty pieces removed, every piece trimmed
split(s, delims) ==
  LET raw == RawSplit(s, delims, <<>>)
      kept == SelectSeq(raw, LAMBDA e : e # <<>>)
  IN [i \in 1..Len(kept) |-> BoostTrim(kept[i])]

\* osquery::join(v, delim)
RECURSIVE join(_, _)
join(v, delim) ==
  IF v = <<>> THEN <<>>
  ELSE IF Len(v) = 1 THEN v[1]
       ELSE v[1] \o delim \o join(Tail(v), delim)

\* osquery::split(s, delim, occurrences): the first `occurrences` pieces and
\* the remaining pieces joined again by delim
splitN(s, delim, occurrences) ==
  LET content == split(s, {delim[1]})
      k == IF occurrences < Len(content) THEN occurrences ELSE Len(content)
      firsts == SubSeq(content, 1, k)
      accumulator == SubSeq(content, k + 1, Len(content))
  IN IF accumulator = <<>> THEN firsts
     ELSE Append(firsts, join(accumulator, delim))

\* the default delimiter set of osquery::split(s)
kDefaultDelims == {TAB, SP}

\* ------------------------------------------------------------------------
\* Literals of the source: the keys searched for in the lines
\* ------------------------------------------------------------------------
kPersonalitiesKey ==
  <<"P","e","r","s","o","n","a","l","i","t","i","e","s"," ",":">>
kUnusedKey ==
  <<"u","n","u","s","e","d"," ","d","e","v","i","c","e","s",":">>
kRecoveryKey ==
  <<"r","e","c","o","v","e","r","y"," ","=">>
kResyncKey ==
  <<"r","e","s","y","n","c"," ","=">>
kCheckKey ==
  <<"c","h","e","c","k"," ","=">>
kBitmapKey ==
  <<"b","i","t","m","a","p",":">>
kFileKey ==
  <<"f","i","l","e",":">>

\* ------------------------------------------------------------------------
\* Content of kMDStatPath: raw lines as getline delivers them
\* ------------------------------------------------------------------------
LPers ==
  <<"P","e","r","s","o","n","a","l","i","t","i","e","s"," ",":"," ","[","r",
  "1","]">>
LHdr ==
  <<"m","d","0"," ",":"," ","a"," ","r","1"," ","b","[","1","]"," ","a","[",
  "0","]">>
LHdrOne ==
  <<"m","d","1"," ",":"," ","a">>
LHdrNoColon ==
  <<"m","d","2">>
LCfg ==
  <<"9"," ","b","l","o","c","k","s"," ","[","2","/","2","]"," ","[","U","U",
  "]">>
LResync ==
  <<" "," ","r","e","s","y","n","c"," ","="," ","1","%"," ","(","1","/","9",
  ")"," ","f","i","n","i","s","h","=","2","m"," ","s","p","e","e","d","=","3",
  "K">>
LUnused ==
  <<"u","n","u","s","e","d"," ","d","e","v","i","c","e","s",":"," ","<","n",
  "o","n","e",">">>
LUn ==
  <<"u","n">>
LHdrEmpty ==
  <<"m","d","6"," ",":">>
LCfgOther ==
  <<"9"," ","b","l","o","c","k","s"," ","s","u","p","e","r"," ","1",".","2",
  " ","[","2","/","2","]"," ","[","U","U","]">>
LRecovery ==
  <<" "," ","[",">",".","]"," "," ","r","e","c","o","v","e","r","y"," ","=",
  " ","5","%"," ","(","1","/","9",")"," ","f","i","n","i","s","h","=","6","m",
  " ","s","p","e","e","d","=","7","K">>
LCheck ==
  <<" "," ","c","h","e","c","k"," ","="," ","8","%"," ","(","2","/","9",")",
  " ","f","i","n","i","s","h","=","1","m"," ","s","p","e","e","d","=","4",
  "K">>
LBitmap ==
  <<" "," ","b","i","t","m","a","p",":"," ","1","/","1"," ","p","a","g","e",
  "s"," ","[","4","K","B","]",","," ","6","4","K","B"," ","c","h","u","n","k",
  ","," ","f","i","l","e",":"," ","/","b">>
LHdrB ==
  <<"m","d","7"," ",":"," ","a"," ","r","5"," ","c","[","0","]">>
LCfgB ==
  <<"8"," ","b","l","o","c","k","s"," ","[","1","/","1","]"," ","[","U","]">>
LTabPers ==
  <<TAB,"P","e","r","s","o","n","a","l","i","t","i","e","s"," ",":"," ","[",
  "r","1","]">>
LPersTab ==
  <<"P","e","r","s","o","n","a","l","i","t","i","e","s"," ",":"," ","[","r",
  "1","]"," ",TAB>>
LBlank ==
  <<" "," "," ">>
LHdrSlots ==
  <<"m","d","3"," ",":"," ","a"," ","r","1"," ","e","[","7","]"," ","f","[",
  "-","1","]"," ","b","[","0","]"," ","d">>
LCfgTwo ==
  <<"9"," ","b","l","o","c","k","s"," ","[","0","/","0","]"," ","[","]">>
LCfgOneChar ==
  <<"9"," ","b","l","o","c","k","s"," ","x"," ","]">>
LJunk ==
  <<"x","x">>
LHdrNaN ==
  <<"m","d","4"," ",":"," ","a"," ","r","1"," ","b","[","0","]"," ","c","[",
  "x","]"," ","a","[","1","]">>
LHdrRev ==
  <<"m","d","5"," ",":"," ","a"," ","r","1"," ","h","]","b","[","1"," ","g",
  "]","["," ","a","[","0","]">>

LResyncOdd ==
  <<" "," ","r","e","s","y","n","c"," ","="," ","1","%"," ","(","1","/","9",
  ")"," ","f","i","n","i","s","h","=","n","/","a"," ","s","p","e","e","d","=",
  "s","l","o","w">>
LRecoveryPlain ==
  <<" "," ","r","e","c","o","v","e","r","y"," ","="," ","5","%"," ","(","1",
  "/","9",")"," ","e","t","a","=","6","m"," ","r","a","t","e","=","7","K">>
LTabHdr ==
  <<TAB,"m","d","0"," ",":"," ","a"," ","r","1"," ","b","[","1","]"," ","a",
  "[","0","]">>
LPersOdd ==
  <<"P","e","r","s","o","n","a","l","i","t","i","e","s"," ",":"," ","[","r",
  "1","]"," ","r","5">>
LBitmapTwo ==
  <<" "," ","b","i","t","m","a","p",":"," ","1","/","1"," ","p","a","g","e",
  "s"," ","[","4","K","B","]",","," ","6","4","K","B"," ","c","h","u","n",
  "k">>
LBitmapOne ==
  <<" "," ","b","i","t","m","a","p",":"," ","n","o","n","e">>
LBitmapPlain ==
  <<" "," ","b","i","t","m","a","p",":"," ","1","/","1"," ","p","a","g","e",
  "s",","," ","6","4","K","B"," ","c","h","u","n","k",","," ","e","x","t","r",
  "a">>

\* the well-formed status text of a resyncing raid1 array
ExPers ==
  <<"P","e","r","s","o","n","a","l","i","t","i","e","s"," ",":"," ","[","r",
  "a","i","d","1","]">>
ExHdr ==
  <<"m","d","0"," ",":"," ","a","c","t","i","v","e"," ","r","a","i","d","1",
  " ","s","d","b","1","[","1","]"," ","s","d","a","1","[","0","]">>
ExCfg ==
  <<" "," "," "," "," "," ","1","9","5","3","5","1","4","4","9","6"," ","b",
  "l","o","c","k","s"," ","s","u","p","e","r"," ","1",".","2"," ","[","2","/",
  "2","]"," ","[","U","U","]">>
ExResync ==
  <<" "," "," "," "," "," ","[","=","=","=",">",".",".",".",".",".",".",".",
  ".",".",".",".",".",".",".",".",".",".","]"," "," ","r","e","s","y","n","c",
  " ","="," ","1","5",".","5","%"," ","(","3","0","3","7","4","6","4","3","2",
  "/","1","9","5","3","5","1","4","4","9","6",")"," ","f","i","n","i","s","h",
  "=","1","1","5",".","2","m","i","n"," ","s","p","e","e","d","=","1","6","2",
  "0","3","3","K","/","s","e","c">>
ExUnused ==
  <<"u","n","u","s","e","d"," ","d","e","v","i","c","e","s",":"," ","<","n",
  "o","n","e",">">>
ExRaidLevel ==
  <<"r","a","i","d","1">>
ExHealthy ==
  <<"2","/","2">>
ExHealthyBracketed ==
  <<"[","2","/","2","]">>
ExUsable ==
  <<"1","9","5","3","5","1","4","4","9","6"," ","b","l","o","c","k","s">>
ExProgress ==
  <<"1","5",".","5","%"," ","(","3","0","3","7","4","6","4","3","2","/","1",
  "9","5","3","5","1","4","4","9","6",")">>
ExFinish ==
  <<"1","1","5",".","2","m","i","n">>
ExSpeed ==
  <<"1","6","2","0","3","3","K","/","s","e","c">>

\* ------------------------------------------------------------------------
\* Bounds of the model
\* ------------------------------------------------------------------------
\* longest status text assembled freely from RawPool
MaxLines == 3
\* iterations of the outer loop that may end without moving the cursor
MaxStalls == 2
\* how far past lines.end() an out-of-range read may still return a value
MaxGhost == 2
\* generator calls in one sequence of calls
MaxCalls == 2
\* longest status text assembled freely from RawPool in a sequence of calls
MaxCallLines == 2
\* longest list of block devices
MaxDevs == 2
\* longest list of driver names handed to getSmartCtlDeviceType
MaxDrivers == 3
\* most PCI devices udev enumerates
MaxPci == 3

\* ------------------------------------------------------------------------
\* The status sources the model runs on
\* ------------------------------------------------------------------------
RawPool == {LPers, LHdr, LHdrOne, LHdrNoColon, LCfg, LResync, LUnused, LUn}

Scenarios ==
  { <<ExPers, ExHdr, ExCfg, ExResync, ExUnused>>,
    <<LPers, LHdr, LCfgOther, LRecovery, LResync, LCheck, LBitmap, LUnused>>,
    <<LPers, LHdr, LCfg, LHdrB, LCfgB, LUnused>>,
    <<LPers, LHdr, LCfg, LResync, LJunk, LHdrB, LCfgB, LBitmap, LUnused>>,
    <<LTabPers, LHdr, LCfg, LUnused>>,
    <<LBlank, LPers, <<>>, LHdrB, LCfgB, LUnused>>,
    <<LPers, LHdrEmpty, LCfg, LUnused>>,
    <<LPers, LHdrOne, LJunk, LUnused>>,
    <<LPers, LHdrSlots, LCfg, LUnused>>,
    <<LPers, LHdrSlots, LCfgB, LUnused>>,
    <<LPers, LHdrSlots, LCfgTwo, LUnused>>,
    <<LPers, LHdrSlots, LCfgOneChar, LUnused>>,
    <<LPers, LHdrSlots, LJunk, LUnused>>,
    <<LPers, LHdrNaN, LCfg, LUnused>>,
    <<LPers, LHdrRev, LCfg, LUnused>>,
    <<LPersTab, LHdr, LCfg, LUnused>>,
    <<LPers, LHdr, LCfg, LResyncOdd, LRecoveryPlain, LUnused>>,
    <<LPers, LTabHdr, LCfg, LUnused>>,
    <<LPersOdd, LHdr, LCfg, LUnused>>,
    <<LPers, LHdr, LCfg, LBitmapTwo, LUnused>>,
    <<LPers, LHdr, LCfg, LBitmapOne, LUnused>>,
    <<LPers, LHdr, LCfg, LBitmapPlain, LUnused>>,
    <<LBlank, <<TAB>>, <<>>, <<SP, CR>>>> }

Texts == UNION {[1..k -> RawPool] : k \in 0..MaxLines} \cup Scenarios

\* what std::ifstream handle(kMDStatPath) finds
Sources ==
  {[open |-> TRUE, text |-> t] : t \in Texts} \cup
  {[open |-> FALSE, text |-> <<>>]}

\* the sources a sequence of calls starts on
CallSources ==
  {[open |-> TRUE, text |-> t] :
     t \in UNION {[1..k -> RawPool] : k \in 0..MaxCallLines} \cup Scenarios}
  \cup {[open |-> FALSE, text |-> <<>>]}

\* what the file can have become between two calls
LaterSources ==
  { [open |-> FALSE, text |-> <<>>],
    [open |-> TRUE, text |-> <<>>],
    [open |-> TRUE, text |-> <<ExPers, ExHdr, ExCfg, ExResync, ExUnused>>],
    [open |-> TRUE, text |-> <<LPers, LHdr, LCfg, LHdrB, LCfgB, LUnused>>],
    [open |-> TRUE, text |-> <<LPers, LHdrOne>>] }

Queries == {"md_devices", "md_drives", "md_personalities"}

\* values an out-of-range lines[n + 1] can deliver when it does not fault
GarbageLines == {<<>>, trimStr(LResync, SP)}

\* ------------------------------------------------------------------------
\* State
\* ------------------------------------------------------------------------
VARIABLES
  source,     \* the file behind kMDStatPath
  query,      \* the table generator being run
  pc,         \* position of the running generator
  lines,      \* parseMDStat: std::vector<std::string> lines
  n,          \* parseMDStat: the cursor
  result,     \* the MDStat being filled
  mdd,        \* parseMDStat: the MDDevice under construction
  rows,       \* QueryData results of the generator
  di, dj,     \* genMDDrives: device and drive position
  log,        \* LOG(WARNING) messages, by kind
  maxRead,    \* highest index used on lines so far, -1 when none
  iterStart,  \* cursor at the start of the latest outer iteration, -1 when none
  stalls,     \* outer iterations that ended without moving the cursor
  lastDrive,  \* genMDDrives: slot, driveStatuses.length(), read and warning of
              \* the latest row
  calls,      \* generator calls that have returned so far
  prev,       \* the MDStat of the latest returned call on the unchanged source
  storageDrivers,  \* what getStorageCtlerClassDrivers returns
  devs,       \* what getBlkDevices returns
  lib,        \* the answers of libsmartctl::Client
  uid,        \* getuid() and geteuid()
  si,         \* the SMART generators: position in devs
  ctl,        \* getSmartCtlDeviceType: the return value, type and count
  pci,        \* the udev handle and the PCI devices udev enumerates
  pi          \* getStorageCtlerClassDrivers: position in the PCI devices

\* the variables of a sequence of generator calls
callVars == <<calls, prev>>

\* the variables of the SMART generators
\* the variables of the look-up of the controller drivers
driverVars == <<ctl, pci, pi>>

smartVars == <<storageDrivers, devs, lib, uid, si, driverVars>>

vars == <<source, query, pc, lines, n, result, mdd, rows, di, dj, log,
          maxRead, iterStart, stalls, lastDrive, callVars, smartVars>>

\* struct MDDevice, default constructed
EmptyMDDevice ==
  [name |-> <<>>, status |-> <<>>, raidLevel |-> <<>>, usableSize |-> <<>>,
   other |-> <<>>, drives |-> <<>>, healthyDrives |-> <<>>,
   driveStatuses |-> <<>>, recovery |-> <<>>, resync |-> <<>>,
   bitmap |-> <<>>, checkArray |-> <<>>]

\* struct MDStat, default constructed
EmptyMDStat == [personalities |-> <<>>, devices |-> <<>>, unused |-> <<>>]

\* no row of genMDDrives yet
NoDrive == [row |-> FALSE, slot |-> 0, length |-> 0, read |-> FALSE,
            warned |-> 0]

\* no returned call to compare with
NoPrev == [valid |-> FALSE, snap |-> EmptyMDStat]

\* a client that has every answer and no device to be asked about
NoLib == [infoErr |-> {}, idErr |-> {}, present |-> {}]

\* no generator has been called; the SMART side has nothing to walk
NoCalls ==
  /\ calls = 0
  /\ prev = NoPrev

\* bool, std::string type and int count before getSmartCtlDeviceType
NoCtl == [ret |-> FALSE, type |-> "", count |-> 0]

\* a udev handle with no PCI device to enumerate
NoPci == [handle |-> TRUE, devices |-> <<>>]

\* the look-up of the controller drivers has not run
NoDrivers ==
  /\ ctl = NoCtl
  /\ pci = NoPci
  /\ pi = 0

NoSmart ==
  /\ storageDrivers = <<>>
  /\ devs = <<>>
  /\ lib = NoLib
  /\ uid = 0
  /\ si = 0
  /\ NoDrivers

\* no generator is running: the locals of parseMDStat and of the generators
\* do not exist
IdleLocals ==
  /\ query = "none"
  /\ pc = "idle"
  /\ lines = <<>>
  /\ n = 0
  /\ result = EmptyMDStat
  /\ mdd = EmptyMDDevice
  /\ rows = <<>>
  /\ di = 0
  /\ dj = 0
  /\ log = <<>>
  /\ maxRead = -1
  /\ iterStart = -1
  /\ stalls = 0
  /\ lastDrive = NoDrive

Init ==
  /\ source \in Sources
  /\ IdleLocals
  /\ NoCalls
  /\ NoSmart

\* the start of a sequence of calls
InitCalls ==
  /\ source \in CallSources
  /\ IdleLocals
  /\ NoCalls
  /\ NoSmart

\* ------------------------------------------------------------------------
\* getLines
\* ------------------------------------------------------------------------
\* the blank test as it would be if every line were kept
KeepLineAlways(line) == TRUE

\* the body of the getline loop for one line: trimStr, then the blank test
KeepLine(line) == FindFirstNotOf(trimStr(line, SP), kBlankChars) # NPOS

getLines(src) ==
  IF src.open
  THEN LET kept == SelectSeq(src.text, KeepLine)
       IN [i \in 1..Len(kept) |-> trimStr(kept[i], SP)]
  ELSE <<>>

\* ------------------------------------------------------------------------
\* parseMDStat
\* ------------------------------------------------------------------------
\* lines[i] for the 0-based index i
LineAt(i) == lines[i + 1]

\* the values lines[i] can deliver: the line when i is in range; past the end
\* the read is undefined and delivers some value (or faults, see ReadFault)
ReadLine(i) ==
  IF i < Len(lines) THEN {LineAt(i)}
  ELSE IF i - Len(lines) < MaxGhost THEN GarbageLines ELSE {}

Larger(a, b) == IF a > b THEN a ELSE b

\* a table generator is called: it runs parseMDStat up to the outer loop
\* (getLines, the empty check and the Personalities line)
Call(q) ==
  /\ pc = "idle"
  /\ query' = q
  /\ LET ls == getLines(source)
     IN /\ lines' = ls
        /\ IF Len(ls) < 1
           THEN /\ pc' = "project"
                /\ UNCHANGED <<n, result, log, maxRead>>
           ELSE /\ pc' = "loop"
                /\ maxRead' = 0
                /\ IF Find(ls[1], kPersonalitiesKey) # NPOS
                   THEN /\ result' = [result EXCEPT !.personalities =
                                        SubstrFrom(ls[1], Len(kPersonalitiesKey))]
                        /\ n' = 1
                        /\ log' = log
                   ELSE /\ log' = Append(log, "personalities")
                        /\ UNCHANGED <<n, result>>
  /\ UNCHANGED <<callVars, smartVars>>
  /\ UNCHANGED <<source, mdd, rows, di, dj, iterStart, stalls, lastDrive>>

\* std::string firstTwo = lines[n].substr(0, 2)
firstTwo(line) == Substr(line, 0, 2)

kMD == <<"m", "d">>
kUN == <<"u", "n">>

\* while (n < lines.size()) is false: parseMDStat returns
LoopExit ==
  /\ pc = "loop"
  /\ ~(n < Len(lines))
  /\ pc' = "project"
  /\ UNCHANGED <<callVars, smartVars>>
  /\ UNCHANGED <<source, query, lines, n, result, mdd, rows, di, dj, log,
                 maxRead, iterStart, stalls, lastDrive>>

\* the MDDevice after the header line: name, status, raidLevel and drives
ParseHeader(mdline) ==
  LET settings == trimStrs(split(mdline[2], {SP}), SP)
      named == [EmptyMDDevice EXCEPT !.name = trimStr(mdline[1], SP)]
  IN IF Len(settings) >= 2
     THEN [named EXCEPT !.status = settings[1],
                        !.raidLevel = settings[2],
                        !.drives = SubSeq(settings, 3, Len(settings))]
     ELSE named

\* firstTwo == "md" and the line splits at a colon
Header ==
  /\ pc = "loop"
  /\ n < Len(lines)
  /\ firstTwo(LineAt(n)) = kMD
  /\ LET mdline == splitN(LineAt(n), <<":">>, 1)
     IN /\ ~(Len(mdline) < 2)
        /\ mdd' = ParseHeader(mdline)
  /\ pc' = "config"
  /\ iterStart' = n
  /\ maxRead' = Larger(maxRead, n)
  /\ UNCHANGED <<callVars, smartVars>>
  /\ UNCHANGED <<source, query, lines, n, result, rows, di, dj, log, stalls,
                 lastDrive>>

\* firstTwo == "md" and mdline.size() < 2: warning and `continue`
HeaderNoColon ==
  /\ pc = "loop"
  /\ n < Len(lines)
  /\ firstTwo(LineAt(n)) = kMD
  /\ Len(splitN(LineAt(n), <<":">>, 1)) < 2
  /\ stalls < MaxStalls
  /\ stalls' = stalls + 1
  /\ log' = Append(log, "mdline")
  /\ iterStart' = n
  /\ maxRead' = Larger(maxRead, n)
  /\ UNCHANGED <<callVars, smartVars>>
  /\ UNCHANGED <<source, query, pc, lines, n, result, mdd, rows, di, dj,
                 lastDrive>>

\* firstTwo == "un": result.unused = lines[n].substr(sizeof("unused devices:") - 1);
\* substr throws std::out_of_range when the line is shorter than the key
Unused ==
  /\ pc = "loop"
  /\ n < Len(lines)
  /\ firstTwo(LineAt(n)) # kMD
  /\ firstTwo(LineAt(n)) = kUN
  /\ IF Len(kUnusedKey) > Len(LineAt(n))
     THEN /\ pc' = "threw"
          /\ UNCHANGED <<n, result>>
     ELSE /\ result' = [result EXCEPT !.unused =
                          SubstrFrom(LineAt(n), Len(kUnusedKey))]
          /\ n' = n + 1
          /\ pc' = pc
  /\ iterStart' = n
  /\ maxRead' = Larger(maxRead, n)
  /\ UNCHANGED <<callVars, smartVars>>
  /\ UNCHANGED <<source, query, lines, mdd, rows, di, dj, log, stalls,
                 lastDrive>>

\* Skip as it would be if an unexpected line ended the parse
SkipAborts ==
  /\ pc = "loop"
  /\ n < Len(lines)
  /\ firstTwo(LineAt(n)) # kMD
  /\ firstTwo(LineAt(n)) # kUN
  /\ log' = Append(log, "unexpected")
  /\ pc' = "project"
  /\ iterStart' = n
  /\ maxRead' = Larger(maxRead, n)
  /\ UNCHANGED <<callVars, smartVars>>
  /\ UNCHANGED <<source, query, lines, n, result, mdd, rows, di, dj, stalls,
                 lastDrive>>

\* neither "md" nor "un": warning, next line
Skip ==
  /\ pc = "loop"
  /\ n < Len(lines)
  /\ firstTwo(LineAt(n)) # kMD
  /\ firstTwo(LineAt(n)) # kUN
  /\ log' = Append(log, "unexpected")
  /\ n' = n + 1
  /\ iterStart' = n
  /\ maxRead' = Larger(maxRead, n)
  /\ UNCHANGED <<callVars, smartVars>>
  /\ UNCHANGED <<source, query, pc, lines, result, mdd, rows, di, dj, stalls,
                 lastDrive>>

\* mdd.other += (" " + configline[i]) for i in [from, to)
RECURSIVE OtherOf(_, _, _)
OtherOf(configline, from, to) ==
  IF from >= to THEN <<>>
  ELSE <<SP>> \o configline[from + 1] \o OtherOf(configline, from + 1, to)

\* ParseConfig as it would be if the loop over the middle tokens ran one
\* token too far
ParseConfigOffByOne(dev, cl) ==
  LET split0 == split(cl, kDefaultDelims)
      configline == trimStrs(split0, SP)
      size == Len(configline)
  IN IF size < 4 THEN dev
     ELSE [dev EXCEPT
             !.usableSize = configline[1] \o <<SP>> \o configline[2],
             !.healthyDrives = configline[size - 1],
             !.driveStatuses = configline[size],
             !.other = IF size > 4
                       THEN dev.other \o OtherOf(configline, 2, size - 1)
                       ELSE dev.other]

\* the MDDevice after the configuration line cl
ParseConfig(dev, cl) ==
  LET split0 == split(cl, kDefaultDelims)
      configline == trimStrs(split0, SP)
      size == Len(configline)
  IN IF size < 4 THEN dev
     ELSE [dev EXCEPT
             !.usableSize = configline[1] \o <<SP>> \o configline[2],
             !.healthyDrives = configline[size - 1],
             !.driveStatuses = configline[size],
             !.other = IF size > 4
                       THEN dev.other \o OtherOf(configline, 2, size - 2)
                       ELSE dev.other]

\* split(lines[n + 1]), the configuration fields, n += 1
Config ==
  /\ pc = "config"
  /\ \E cl \in ReadLine(n + 1) :
       /\ mdd' = ParseConfig(mdd, cl)
       /\ log' = IF Len(split(cl, kDefaultDelims)) < 4
                 THEN Append(log, "config") ELSE log
  /\ maxRead' = Larger(maxRead, n + 1)
  /\ n' = n + 1
  /\ pc' = "meta"
  /\ UNCHANGED <<callVars, smartVars>>
  /\ UNCHANGED <<source, query, lines, result, rows, di, dj, iterStart,
                 stalls, lastDrive>>

\* which of the four keys the `if / else if` chain finds first in line l
MetaKey(l) ==
  IF Find(l, kRecoveryKey) # NPOS THEN "recovery"
  ELSE IF Find(l, kResyncKey) # NPOS THEN "resync"
  ELSE IF Find(l, kCheckKey) # NPOS THEN "checkArray"
  ELSE IF Find(l, kBitmapKey) # NPOS THEN "bitmap"
  ELSE "none"

\* lines[n + 1].substr(pos + sizeof(key) - 1), trimmed
AfterKey(l, key) == trimStr(SubstrFrom(l, Find(l, key) + Len(key)), SP)

\* the MDDevice after a line that carries one of the keys
StoreMeta(dev, l) ==
  CASE MetaKey(l) = "recovery" ->
         [dev EXCEPT !.recovery = AfterKey(l, kRecoveryKey)]
    [] MetaKey(l) = "resync" ->
         [dev EXCEPT !.resync = AfterKey(l, kResyncKey)]
    [] MetaKey(l) = "checkArray" ->
         [dev EXCEPT !.checkArray = AfterKey(l, kCheckKey)]
    [] MetaKey(l) = "bitmap" ->
         [dev EXCEPT !.bitmap = AfterKey(l, kBitmapKey)]
    [] OTHER -> dev

\* one round of while (true) that finds a key in lines[n + 1]
MetaConsume ==
  /\ pc = "meta"
  /\ \E l \in ReadLine(n + 1) :
       /\ MetaKey(l) # "none"
       /\ mdd' = StoreMeta(mdd, l)
  /\ maxRead' = Larger(maxRead, n + 1)
  /\ n' = n + 1
  /\ UNCHANGED <<callVars, smartVars>>
  /\ UNCHANGED <<source, query, pc, lines, result, rows, di, dj, log,
                 iterStart, stalls, lastDrive>>

\* the round that finds none: break, devices.push_back(mdd), n += 1
MetaEnd ==
  /\ pc = "meta"
  /\ \E l \in ReadLine(n + 1) : MetaKey(l) = "none"
  /\ maxRead' = Larger(maxRead, n + 1)
  /\ result' = [result EXCEPT !.devices = Append(@, mdd)]
  /\ n' = n + 1
  /\ mdd' = EmptyMDDevice
  /\ pc' = "loop"
  /\ UNCHANGED <<callVars, smartVars>>
  /\ UNCHANGED <<source, query, lines, rows, di, dj, log, iterStart, stalls,
                 lastDrive>>

\* lines[n + 1] with n + 1 >= lines.size() is undefined: the read may fault
ReadFault ==
  /\ pc \in {"config", "meta"}
  /\ ~(n + 1 < Len(lines))
  /\ maxRead' = Larger(maxRead, n + 1)
  /\ pc' = "crashed"
  /\ UNCHANGED <<callVars, smartVars>>
  /\ UNCHANGED <<source, query, lines, n, result, mdd, rows, di, dj, log,
                 iterStart, stalls, lastDrive>>

\* ------------------------------------------------------------------------
\* genMDDevices
\* ------------------------------------------------------------------------
\* r[key] = value on a Row (std::map<std::string, std::string>)
SetCol(r, key, value) == (key :> value) @@ r

kFinishChars == {"f", "i", "n", "s", "h", "="}
kSpeedChars == {"s", "p", "e", "d", "="}

\* piece.substr(start) when find_first_not_of(chars) finds a start, else piece
StripLeading(piece, chars) ==
  LET start == FindFirstNotOf(piece, chars)
  IN IF start # NPOS THEN SubstrFrom(piece, start) ELSE piece

\* handleR as it would be if the progress column took the first piece only
handleRFirstPiece(r, line, prefix) ==
  LET pieces0 == split(line, {SP})
      pieces == trimStrs(pieces0, SP)
  IN IF Len(pieces0) # 4 THEN r
     ELSE SetCol(
            SetCol(
              SetCol(r, prefix \o "_progress", pieces[1]),
              prefix \o "_finish", StripLeading(pieces[3], kFinishChars)),
            prefix \o "_speed", StripLeading(pieces[4], kSpeedChars))

\* the lambda handleR: the row after one recovery/resync/check string
handleR(r, line, prefix) ==
  LET pieces0 == split(line, {SP})
      pieces == trimStrs(pieces0, SP)
  IN IF Len(pieces0) # 4 THEN r
     ELSE SetCol(
            SetCol(
              SetCol(r, prefix \o "_progress",
                     pieces[1] \o <<SP>> \o pieces[2]),
              prefix \o "_finish", StripLeading(pieces[3], kFinishChars)),
            prefix \o "_speed", StripLeading(pieces[4], kSpeedChars))

\* the bitmap columns as they would be if the key were looked for in the
\* second segment
BitmapColsSecondSegment(r, bitmap) ==
  LET bitmapInfos0 == split(bitmap, {","})
      bitmapInfos == trimStrs(bitmapInfos0, SP)
      r2 == SetCol(SetCol(r, "bitmap_on_mem", bitmapInfos[1]),
                   "bitmap_chunk_size", bitmapInfos[2])
  IN IF Len(bitmapInfos0) < 2 THEN r
     ELSE IF Len(bitmapInfos) > 2 /\ Find(bitmapInfos[2], kFileKey) # NPOS
          THEN SetCol(r2, "bitmap_external_file",
                      trimStr(SubstrFrom(bitmapInfos[2],
                                Find(bitmapInfos[2], kFileKey) + Len(kFileKey)),
                              SP))
          ELSE r2

\* the bitmap columns of the row
BitmapCols(r, bitmap) ==
  LET bitmapInfos0 == split(bitmap, {","})
      bitmapInfos == trimStrs(bitmapInfos0, SP)
      r2 == SetCol(SetCol(r, "bitmap_on_mem", bitmapInfos[1]),
                   "bitmap_chunk_size", bitmapInfos[2])
  IN IF Len(bitmapInfos0) < 2 THEN r
     ELSE IF Len(bitmapInfos) > 2 /\ Find(bitmapInfos[3], kFileKey) # NPOS
          THEN SetCol(r2, "bitmap_external_file",
                      trimStr(SubstrFrom(bitmapInfos[3],
                                Find(bitmapInfos[3], kFileKey) + Len(kFileKey)),
                              SP))
          ELSE r2

\* the Row built for one device
DeviceRow(device, unused) ==
  LET r0 == [device_name |-> device.name,
             status |-> device.status,
             raid_level |-> device.raidLevel,
             healthy_drives |-> device.healthyDrives,
             usable_size |-> device.usableSize]
      r1 == IF device.recovery # <<>>
            THEN handleR(r0, device.recovery, "discovery") ELSE r0
      r2 == IF device.resync # <<>>
            THEN handleR(r1, device.resync, "resync") ELSE r1
      r3 == IF device.checkArray # <<>>
            THEN handleR(r2, device.checkArray, "check_array") ELSE r2
      r4 == IF device.bitmap # <<>> THEN BitmapCols(r3, device.bitmap) ELSE r3
  IN SetCol(r4, "unused_devices", unused)

\* the warnings logged while building the row of one device
DeviceWarnings(device) ==
  LET bad(line) == line # <<>> /\ Len(split(line, {SP})) # 4
  IN (IF bad(device.recovery) THEN <<"handleR">> ELSE <<>>) \o
     (IF bad(device.resync) THEN <<"handleR">> ELSE <<>>) \o
     (IF bad(device.checkArray) THEN <<"handleR">> ELSE <<>>) \o
     (IF device.bitmap # <<>> /\ Len(split(device.bitmap, {","})) < 2
      THEN <<"bitmap">> ELSE <<>>)

RECURSIVE Flatten(_)
Flatten(ss) == IF ss = <<>> THEN <<>> ELSE Head(ss) \o Flatten(Tail(ss))

\* genMDDevices as it would be if only the last row carried the trailer
genMDDevicesUnusedOnLast ==
  /\ pc = "project"
  /\ query = "md_devices"
  /\ rows' = [i \in 1..Len(result.devices) |->
                DeviceRow(result.devices[i],
                          IF i = Len(result.devices) THEN result.unused
                          ELSE <<>>)]
  /\ log' = log \o Flatten([i \in 1..Len(result.devices) |->
                              DeviceWarnings(result.devices[i])])
  /\ pc' = "done"
  /\ UNCHANGED <<callVars, smartVars>>
  /\ UNCHANGED <<source, query, lines, n, result, mdd, di, dj, maxRead,
                 iterStart, stalls, lastDrive>>

\* the loop of genMDDevices over mds.devices, after parseMDStat returned
genMDDevices ==
  /\ pc = "project"
  /\ query = "md_devices"
  /\ rows' = [i \in 1..Len(result.devices) |->
                DeviceRow(result.devices[i], result.unused)]
  /\ log' = log \o Flatten([i \in 1..Len(result.devices) |->
                              DeviceWarnings(result.devices[i])])
  /\ pc' = "done"
  /\ UNCHANGED <<callVars, smartVars>>
  /\ UNCHANGED <<source, query, lines, n, result, mdd, di, dj, maxRead,
                 iterStart, stalls, lastDrive>>

\* ------------------------------------------------------------------------
\* genMDDrives
\* ------------------------------------------------------------------------
Digits == <<"0", "1", "2", "3", "4", "5", "6", "7", "8", "9">>
DigitSet == {Digits[i] : i \in 1..Len(Digits)}
DigitVal(c) == (CHOOSE i \in 1..Len(Digits) : Digits[i] = c) - 1

\* most decimal digits std::stoi converts here without std::out_of_range
\* (INT_MAX has ten digits; longer tokens are outside the modelled inputs)
kStoiDigits == 9

RECURSIVE DecVal(_)
DecVal(ds) ==
  IF ds = <<>> THEN 0 ELSE 10 * DecVal(SubSeq(ds, 1, Len(ds) - 1))
                           + DigitVal(ds[Len(ds)])

\* std::stoi(s): leading white space, an optional sign, the longest run of
\* digits; ok is FALSE when it throws
stoi(s) ==
  LET first == FindFirstNotOf(s, IsSpace)
      t == IF first = NPOS THEN <<>> ELSE SubstrFrom(s, first)
      signed == t # <<>> /\ t[1] \in {"+", "-"}
      body == IF signed THEN Tail(t) ELSE t
      stop == FindFirstNotOf(body, DigitSet)
      ds == IF stop = NPOS THEN body ELSE SubSeq(body, 1, stop)
  IN IF ds = <<>> \/ Len(ds) > kStoiDigits
     THEN [ok |-> FALSE, val |-> 0]
     ELSE [ok |-> TRUE,
           val |-> IF signed /\ t[1] = "-" THEN 0 - DecVal(ds) ELSE DecVal(ds)]

\* drive.substr(start + 1, end - start - 1): the count is a size_t, so a
\* negative difference wraps to a count that reaches the end of the string
SlotText(drive, start, end) ==
  IF end - start - 1 < 0 THEN SubstrFrom(drive, start + 1)
  ELSE Substr(drive, start + 1, end - start - 1)

\* 0 <= driveNum < device.driveStatuses.length() - 2 as C++ evaluates it:
\* (0 <= driveNum) is a bool, converted to 0 or 1 and compared, unsigned,
\* with length() - 2, which wraps to a huge value when length() < 2
InRange(driveNum, length) ==
  LET b == IF 0 <= driveNum THEN 1 ELSE 0
  IN IF length < 2 THEN TRUE ELSE b < length - 2

\* the position of the next drive at or after (i, j), or <<Len(devices), 0>>
RECURSIVE NextDrive(_, _, _)
NextDrive(devices, i, j) ==
  IF i >= Len(devices) THEN <<i, 0>>
  ELSE IF j < Len(devices[i + 1].drives) THEN <<i, j>>
       ELSE NextDrive(devices, i + 1, 0)

AtDrive ==
  /\ pc = "project"
  /\ query = "md_drives"
  /\ NextDrive(result.devices, di, dj)[1] < Len(result.devices)

CurDevice == result.devices[NextDrive(result.devices, di, dj)[1] + 1]
CurDrive == CurDevice.drives[NextDrive(result.devices, di, dj)[2] + 1]

\* the loop position moves to the drive after the current one
Advance ==
  /\ di' = NextDrive(result.devices, di, dj)[1]
  /\ dj' = NextDrive(result.devices, di, dj)[2] + 1

HasBrackets(drive) == Find(drive, <<"[">>) # NPOS /\ Find(drive, <<"]">>) # NPOS

SlotOf(drive) ==
  stoi(SlotText(drive, Find(drive, <<"[">>), Find(drive, <<"]">>)))

\* a drive token without '[' or without ']': warning and `continue`
DriveSkip ==
  /\ AtDrive
  /\ ~HasBrackets(CurDrive)
  /\ log' = Append(log, "drivefmt")
  /\ Advance
  /\ UNCHANGED <<callVars, smartVars>>
  /\ UNCHANGED <<source, query, pc, lines, n, result, mdd, rows, maxRead,
                 iterStart, stalls, lastDrive>>

\* std::stoi throws std::invalid_argument (or std::out_of_range), which
\* nothing in genMDDrives catches
DriveThrow ==
  /\ AtDrive
  /\ HasBrackets(CurDrive)
  /\ ~SlotOf(CurDrive).ok
  /\ pc' = "threw"
  /\ UNCHANGED <<callVars, smartVars>>
  /\ UNCHANGED <<source, query, lines, n, result, mdd, rows, di, dj, log,
                 maxRead, iterStart, stalls, lastDrive>>

DriveIdentity ==
  [md_device_name |-> CurDevice.name, drive_name |-> CurDrive]

\* the values device.driveStatuses[i] == 'U' can have: the character when i
\* is in the string, '\0' at i == length(), and undefined beyond
StatusValues(driveStatuses, i) ==
  IF 0 <= i /\ i < Len(driveStatuses)
  THEN {IF driveStatuses[i + 1] = "U" THEN <<"1">> ELSE <<"0">>}
  ELSE IF i = Len(driveStatuses) THEN {<<"0">>}
       ELSE {<<"0">>, <<"1">>}

\* a drive token with a slot number: one Row, with status when the range
\* test passes and with a warning when it does not
DriveRow ==
  /\ AtDrive
  /\ HasBrackets(CurDrive)
  /\ SlotOf(CurDrive).ok
  /\ LET driveNum == SlotOf(CurDrive).val
     IN IF InRange(driveNum, Len(CurDevice.driveStatuses))
        THEN /\ \E st \in StatusValues(CurDevice.driveStatuses, driveNum + 1) :
                  rows' = Append(rows, SetCol(DriveIdentity, "status", st))
             /\ lastDrive' = [row |-> TRUE, slot |-> driveNum,
                               length |-> Len(CurDevice.driveStatuses),
                               read |-> TRUE, warned |-> 0]
             /\ log' = log
        ELSE /\ rows' = Append(rows, DriveIdentity)
             /\ lastDrive' = [row |-> TRUE, slot |-> driveNum,
                               length |-> Len(CurDevice.driveStatuses),
                               read |-> FALSE, warned |-> 1]
             /\ log' = Append(log, "driverange")
  /\ Advance
  /\ UNCHANGED <<callVars, smartVars>>
  /\ UNCHANGED <<source, query, pc, lines, n, result, mdd, maxRead,
                 iterStart, stalls>>

\* device.driveStatuses[driveNum + 1] outside the string is undefined: the
\* read may fault
DriveFault ==
  /\ AtDrive
  /\ HasBrackets(CurDrive)
  /\ SlotOf(CurDrive).ok
  /\ InRange(SlotOf(CurDrive).val, Len(CurDevice.driveStatuses))
  /\ LET i == SlotOf(CurDrive).val + 1
     IN /\ (i < 0 \/ i > Len(CurDevice.driveStatuses))
        /\ lastDrive' = [row |-> FALSE, slot |-> i - 1,
                          length |-> Len(CurDevice.driveStatuses),
                          read |-> TRUE, warned |-> 0]
  /\ pc' = "crashed"
  /\ UNCHANGED <<callVars, smartVars>>
  /\ UNCHANGED <<source, query, lines, n, result, mdd, rows, di, dj, log,
                 maxRead, iterStart, stalls>>

\* both loops of genMDDrives are finished: return results
DrivesDone ==
  /\ pc = "project"
  /\ query = "md_drives"
  /\ ~(NextDrive(result.devices, di, dj)[1] < Len(result.devices))
  /\ pc' = "done"
  /\ UNCHANGED <<callVars, smartVars>>
  /\ UNCHANGED <<source, query, lines, n, result, mdd, rows, di, dj, log,
                 maxRead, iterStart, stalls, lastDrive>>

\* ------------------------------------------------------------------------
\* genMDPersonalities
\* ------------------------------------------------------------------------
\* setting.substr(1, setting.length() - 2); ok is FALSE when substr throws
\* std::out_of_range (position 1 past the end of an empty string)
PersonalityName(setting0) ==
  LET setting == trimStr(setting0, SP)
  IN IF 1 > Len(setting) THEN [ok |-> FALSE, name |-> <<>>]
     ELSE [ok |-> TRUE,
           name |-> IF Len(setting) - 2 < 0 THEN SubstrFrom(setting, 1)
                    ELSE Substr(setting, 1, Len(setting) - 2)]

genMDPersonalities ==
  /\ pc = "project"
  /\ query = "md_personalities"
  /\ LET enabledPersonalities == split(result.personalities, {SP})
         names == [i \in 1..Len(enabledPersonalities) |->
                     PersonalityName(enabledPersonalities[i])]
     IN IF \E i \in 1..Len(names) : ~names[i].ok
        THEN /\ pc' = "threw"
             /\ rows' = rows
        ELSE /\ pc' = "done"
             /\ rows' = [i \in 1..Len(names) |-> [name |-> names[i].name]]
  /\ UNCHANGED <<callVars, smartVars>>
  /\ UNCHANGED <<source, query, lines, n, result, mdd, di, dj, log, maxRead,
                 iterStart, stalls, lastDrive>>

\* ------------------------------------------------------------------------
\* The SMART generators
\* ------------------------------------------------------------------------
\* device nodes udev can report: two disks and a partition
DevNames == {<<"s", "d", "a">>, <<"s", "d", "a", "1">>, <<"s", "d", "b">>}

\* the sorted driver lists getStorageCtlerClassDrivers can return
DriverLists ==
  { <<>>, <<"ahci">>, <<"hpsa">>, <<"nvme">>, <<"ahci", "hpsa">>,
    <<"ahci", "megaraid_sas">>, <<"hpsa", "megaraid_sas">>,
    <<"ahci", "hpsa", "megaraid_sas">> }

\* the answers of the client: the devices getDevInfo / getDevVendorAttrs fail
\* on, the controller ids cantIdDev fails on, and the ids it can identify
LibAnswers ==
  [infoErr : SUBSET DevNames, idErr : {{}, {0}}, present : {{}, {0, 13}}]

DevLists == UNION {[1..k -> DevNames] : k \in 0..MaxDevs}

SmartQueries == {"genSmartDevInformation", "genSmartDevVendorAttrs"}
LegacyQueries ==
  {"part_000 genSmartDevInformation", "part_000 genSmartDevVendorAttrs"}

kSWDriverToClter == ("ahci" :> "sat")

kHWDriverToClter ==
  ("megaraid_sas" :> [driver |-> "megaraid,", maxID |-> 127]) @@
  ("hpsa" :> [driver |-> "cciss,", maxID |-> 14])

\* std::to_string of a non-negative int
RECURSIVE to_string(_)
to_string(i) ==
  IF i < 10 THEN Digits[i + 1]
  ELSE to_string(i \div 10) \o Digits[(i % 10) + 1]

\* the lambda getTypes(i, j) of getSmartCtlDeviceType
getTypes(sd, i, j) ==
  IF sd[i + 1] \in DOMAIN kSWDriverToClter /\
     sd[j + 1] \in DOMAIN kHWDriverToClter
  THEN [ok |-> TRUE,
        type |-> kSWDriverToClter[sd[i + 1]] \o "+" \o
                 kHWDriverToClter[sd[j + 1]].driver,
        count |-> kHWDriverToClter[sd[j + 1]].maxID]
  ELSE [ok |-> FALSE, type |-> "", count |-> 0]

\* getSmartCtlDeviceType: the return value, type and count as the caller
\* finds them, and the warnings; case 2 has no return after a successful
\* getTypes(1, 0) and runs into default
getSmartCtlDeviceType(sd) ==
  IF Len(sd) = 1
  THEN IF sd[1] \in DOMAIN kSWDriverToClter
       THEN [ret |-> TRUE, type |-> "", count |-> 0, log |-> <<>>]
       ELSE IF sd[1] \in DOMAIN kHWDriverToClter
            THEN [ret |-> TRUE, type |-> kHWDriverToClter[sd[1]].driver,
                  count |-> kHWDriverToClter[sd[1]].maxID, log |-> <<>>]
            ELSE [ret |-> FALSE, type |-> "", count |-> 0,
                  log |-> <<"driver">>]
  ELSE IF Len(sd) = 2
       THEN IF getTypes(sd, 0, 1).ok
            THEN [ret |-> TRUE, type |-> getTypes(sd, 0, 1).type,
                  count |-> getTypes(sd, 0, 1).count, log |-> <<>>]
            ELSE IF ~getTypes(sd, 1, 0).ok
                 THEN [ret |-> FALSE, type |-> "", count |-> 0,
                       log |-> <<"combination">>]
                 ELSE [ret |-> FALSE, type |-> getTypes(sd, 1, 0).type,
                       count |-> getTypes(sd, 1, 0).count,
                       log |-> <<"drivers">>]
       ELSE [ret |-> FALSE, type |-> "", count |-> 0, log |-> <<"drivers">>]

\* dev.find_first_of("0123456789") != npos
HasDigit(dev) == \E k \in 1..Len(dev) : dev[k] \in DigitSet

\* the warning of the root test
RootWarning == IF uid # 0 THEN <<"root">> ELSE <<>>

\* resp.content of getDevInfo and of getDevVendorAttrs for a device the
\* client answers for
InfoContent(dev, type) == [smart_type |-> type]
VendorAttrsContent(dev, type) ==
  <<[attribute |-> "5", smart_type |-> type],
    [attribute |-> "9", smart_type |-> type]>>

\* the column device_id when the handler got an id
WithId(r, i) == IF i > -1 THEN SetCol(r, "device_id", to_string(i)) ELSE r

\* the lambda of genSmartDevInformation: the rows pushed and the warnings
genSmartDevInformation(dev, type, i) ==
  IF dev \in lib.infoErr
  THEN [rows |-> <<>>, log |-> <<"devinfo">>]
  ELSE [rows |-> <<SetCol(WithId(InfoContent(dev, type), i),
                          "device_name", dev)>>,
        log |-> <<>>]

\* the lambda of genSmartDevVendorAttrs
genSmartDevVendorAttrs(dev, type, i) ==
  IF dev \in lib.infoErr
  THEN [rows |-> <<>>, log |-> <<"vendorattrs">>]
  ELSE [rows |-> [k \in 1..Len(VendorAttrsContent(dev, type)) |->
                    SetCol(WithId(VendorAttrsContent(dev, type)[k], i),
                           "device_name", dev)],
        log |-> <<>>]

handleDevF(g, dev, type, i) ==
  IF g = "genSmartDevInformation" THEN genSmartDevInformation(dev, type, i)
  ELSE genSmartDevVendorAttrs(dev, type, i)

\* the body of for (int i = 0; i < count; i++) for one i
WalkId(g, dev, type, i) ==
  IF i \in lib.idErr THEN [rows |-> <<>>, log |-> <<"cantid">>]
  ELSE IF i \in lib.present
       THEN handleDevF(g, dev, type \o to_string(i), i)
       ELSE [rows |-> <<>>, log |-> <<>>]

\* the values of i in 0..count-1 at which the body does anything, ascending
RECURSIVE Ascending(_)
Ascending(ids) ==
  IF ids = {} THEN <<>>
  ELSE <<SetMin(ids)>> \o Ascending(ids \ {SetMin(ids)})

ActiveIds(count) ==
  Ascending({i \in lib.idErr \cup lib.present : 0 <= i /\ i < count})

\* the body of for (auto const& dev : devs) for one dev
WalkOne(g, dev, type, count) ==
  IF type # ""
  THEN IF HasDigit(dev) THEN [rows |-> <<>>, log |-> <<>>]
       ELSE LET ids == ActiveIds(count)
            IN [rows |-> Flatten([k \in 1..Len(ids) |->
                                    WalkId(g, dev, type, ids[k]).rows]),
                log |-> Flatten([k \in 1..Len(ids) |->
                                   WalkId(g, dev, type, ids[k]).log])]
  ELSE handleDevF(g, dev, type, -1)

\* walkSmartDevices up to the loop over devs
SmartCall(g) ==
  /\ pc = "idle"
  /\ query' = g
  /\ LET t == getSmartCtlDeviceType(storageDrivers)
     IN /\ log' = log \o RootWarning \o t.log
        /\ pc' = IF t.ret THEN "walk" ELSE "done"
  /\ si' = 0
  /\ rows' = <<>>
  /\ UNCHANGED <<source, lines, n, result, mdd, di, dj, maxRead, iterStart,
                 stalls, lastDrive, callVars, storageDrivers, devs, lib, uid,
                 driverVars>>

\* one device of the loop of walkSmartDevices
WalkDev ==
  /\ pc = "walk"
  /\ si < Len(devs)
  /\ LET t == getSmartCtlDeviceType(storageDrivers)
         one == WalkOne(query, devs[si + 1], t.type, t.count)
     IN /\ rows' = rows \o one.rows
        /\ log' = log \o one.log
  /\ si' = si + 1
  /\ UNCHANGED <<source, query, pc, lines, n, result, mdd, di, dj, maxRead,
                 iterStart, stalls, lastDrive, callVars, storageDrivers, devs,
                 lib, uid, driverVars>>

\* the loop of walkSmartDevices is finished: return results
WalkDone ==
  /\ pc = "walk"
  /\ si >= Len(devs)
  /\ pc' = "done"
  /\ UNCHANGED <<source, query, lines, n, result, mdd, rows, di, dj, log,
                 maxRead, iterStart, stalls, lastDrive, callVars, smartVars>>

\* part_000: the generator up to its loop over devs
LegacyCall(g) ==
  /\ pc = "idle"
  /\ query' = g
  /\ log' = log \o RootWarning
  /\ pc' = "legacy"
  /\ si' = 0
  /\ rows' = <<>>
  /\ UNCHANGED <<source, lines, n, result, mdd, di, dj, maxRead, iterStart,
                 stalls, lastDrive, callVars, storageDrivers, devs, lib, uid,
                 driverVars>>

\* part_000: the rows one device adds
LegacyRows(g, dev) ==
  IF g = "part_000 genSmartDevInformation"
  THEN <<SetCol(InfoContent(dev, ""), "device_name", dev)>>
  ELSE [k \in 1..Len(VendorAttrsContent(dev, "")) |->
          SetCol(VendorAttrsContent(dev, "")[k], "device_name", dev)]

\* part_000: one device of the loop; an error ends the generator with
\* `return results`
LegacyDev ==
  /\ pc = "legacy"
  /\ si < Len(devs)
  /\ IF devs[si + 1] \in lib.infoErr
     THEN /\ log' = Append(log, "devinfo")
          /\ pc' = "done"
          /\ UNCHANGED <<rows, si>>
     ELSE /\ rows' = rows \o LegacyRows(query, devs[si + 1])
          /\ si' = si + 1
          /\ UNCHANGED <<log, pc>>
  /\ UNCHANGED <<source, query, lines, n, result, mdd, di, dj, maxRead,
                 iterStart, stalls, lastDrive, callVars, storageDrivers, devs,
                 lib, uid, driverVars>>

\* part_000: the loop is finished: return results
LegacyDone ==
  /\ pc = "legacy"
  /\ si >= Len(devs)
  /\ pc' = "done"
  /\ UNCHANGED <<source, query, lines, n, result, mdd, rows, di, dj, log,
                 maxRead, iterStart, stalls, lastDrive, callVars, smartVars>>

\* ------------------------------------------------------------------------
\* The storage controller drivers
\* ------------------------------------------------------------------------
\* driver names: the software driver, the two hardware drivers of the tables
\* and one the tables do not know
DriverNames == {"ahci", "hpsa", "megaraid_sas", "nvme"}

\* the lists of names getSmartCtlDeviceType can be given, in any order
AnyDriverLists == UNION {[1..k -> DriverNames] : k \in 0..MaxDrivers}

\* one call of getSmartCtlDeviceType(storageDrivers, type, count) with type
\* empty and count 0, as walkSmartDevices declares them
DeviceType ==
  /\ pc = "idle"
  /\ query' = "getSmartCtlDeviceType"
  /\ LET t == getSmartCtlDeviceType(storageDrivers)
     IN /\ ctl' = [ret |-> t.ret, type |-> t.type, count |-> t.count]
        /\ log' = log \o t.log
  /\ pc' = "done"
  /\ UNCHANGED <<source, lines, n, result, mdd, rows, di, dj, maxRead,
                 iterStart, stalls, lastDrive, callVars, storageDrivers, devs,
                 lib, uid, si, pci, pi>>

\* the characters of driver names in the order of their codes: the digits,
\* the underscore, the small letters
CharOrder ==
  <<"0", "1", "2", "3", "4", "5", "6", "7", "8", "9", "_",
    "a", "b", "c", "d", "e", "f", "g", "h", "i", "j", "k", "l", "m",
    "n", "o", "p", "q", "r", "s", "t", "u", "v", "w", "x", "y", "z">>

Ord(c) == CHOOSE k \in 1..Len(CharOrder) : CharOrder[k] = c

\* the characters of a driver name
DriverChars(name) ==
  CASE name = "" -> <<>>
    [] name = "ahci" -> <<"a", "h", "c", "i">>
    [] name = "hpsa" -> <<"h", "p", "s", "a">>
    [] name = "megaraid_sas" ->
         <<"m", "e", "g", "a", "r", "a", "i", "d", "_", "s", "a", "s">>
    [] name = "mpt3sas" -> <<"m", "p", "t", "3", "s", "a", "s">>
    [] name = "nvme" -> <<"n", "v", "m", "e">>

\* std::string operator<: the first differing character decides, and a
\* proper prefix is less
StringLess(a, b) ==
  LET x == DriverChars(a)
      y == DriverChars(b)
  IN \E k \in 1..Len(y) :
       /\ k <= Len(x) + 1
       /\ \A h \in 1..(k - 1) : x[h] = y[h]
       /\ \/ k = Len(x) + 1
          \/ k <= Len(x) /\ Ord(x[k]) < Ord(y[k])

\* std::lower_bound(results.begin(), results.end(), value): the halving
\* search from `first` (an offset from begin()) over `count` elements
RECURSIVE lower_bound(_, _, _, _)
lower_bound(results, first, count, value) ==
  IF count <= 0
  THEN first
  ELSE LET step == count \div 2
           it == first + step
       IN IF StringLess(results[it + 1], value)
          THEN lower_bound(results, it + 1, count - (step + 1), value)
          ELSE lower_bound(results, first, step, value)

\* the insertion without the test for a name already there
InsertDriverAlways(results, driverName) ==
  LET i == lower_bound(results, 0, Len(results), driverName)
  IN SubSeq(results, 1, i) \o <<driverName>>
       \o SubSeq(results, i + 1, Len(results))

\* the insertion of driverName at its place unless it is there already
InsertDriver(results, driverName) ==
  LET i == lower_bound(results, 0, Len(results), driverName)
  IN IF i = Len(results) \/ StringLess(driverName, results[i + 1])
     THEN SubSeq(results, 1, i) \o <<driverName>>
            \o SubSeq(results, i + 1, Len(results))
     ELSE results

\* UdevEventPublisher::getValue: the value of a property of the device, the
\* empty string when the device has no such property
getValue(device, property) == device[property]

\* the classes and drivers udev reports for PCI devices
PciClasses == {"Mass storage controller", "Network controller"}
PciDrivers == {"", "ahci", "hpsa", "megaraid_sas", "mpt3sas"}

\* a list entry without a name, and the devices of each class and driver
PciDevices ==
  {[path |-> FALSE, ID_PCI_CLASS_FROM_DATABASE |-> "", DRIVER |-> ""]}
    \cup {[path |-> TRUE, ID_PCI_CLASS_FROM_DATABASE |-> c, DRIVER |-> d] :
            c \in PciClasses, d \in PciDrivers}

\* udev_new() succeeding or not, and the devices of the "pci" subsystem
PciInputs ==
  [handle : BOOLEAN,
   devices : UNION {[1..k -> PciDevices] : k \in 0..MaxPci}]

\* getStorageCtlerClassDrivers is called: results is empty, and
\* walkUdevSubSystem returns at once without a udev handle
DriversCall ==
  /\ pc = "idle"
  /\ query' = "getStorageCtlerClassDrivers"
  /\ storageDrivers' = <<>>
  /\ pi' = 1
  /\ IF pci.handle
     THEN /\ pc' = "pci"
          /\ log' = log
     ELSE /\ pc' = "done"
          /\ log' = Append(log, "udev")
  /\ UNCHANGED <<source, lines, n, result, mdd, rows, di, dj, maxRead,
                 iterStart, stalls, lastDrive, callVars, devs, lib, uid, si,
                 ctl, pci>>

\* the lambda of getStorageCtlerClassDrivers on the next list entry
VisitPci ==
  /\ pc = "pci"
  /\ pi <= Len(pci.devices)
  /\ LET device == pci.devices[pi]
     IN storageDrivers' =
          IF /\ device.path
             /\ getValue(device, "ID_PCI_CLASS_FROM_DATABASE")
                  = "Mass storage controller"
          THEN InsertDriver(storageDrivers, getValue(device, "DRIVER"))
          ELSE storageDrivers
  /\ pi' = pi + 1
  /\ UNCHANGED <<source, query, pc, lines, n, result, mdd, rows, di, dj, log,
                 maxRead, iterStart, stalls, lastDrive, callVars, devs, lib,
                 uid, si, ctl, pci>>

\* the list of entries is exhausted: return results
DriversDone ==
  /\ pc = "pci"
  /\ pi > Len(pci.devices)
  /\ pc' = "done"
  /\ UNCHANGED <<source, query, lines, n, result, mdd, rows, di, dj, log,
                 maxRead, iterStart, stalls, lastDrive, callVars, smartVars>>


\* ------------------------------------------------------------------------
\* A sequence of generator calls
\* ------------------------------------------------------------------------
\* the return as it would be if MDStat mds outlived the call
ReturnKeepsSnapshot ==
  /\ pc = "done"
  /\ query \in Queries
  /\ calls + 1 < MaxCalls
  /\ calls' = calls + 1
  /\ prev' = [valid |-> TRUE, snap |-> result]
  /\ pc' = "idle"
  /\ query' = "none"
  /\ lines' = <<>>
  /\ n' = 0
  /\ result' = result
  /\ mdd' = EmptyMDDevice
  /\ rows' = <<>>
  /\ di' = 0
  /\ dj' = 0
  /\ log' = <<>>
  /\ maxRead' = -1
  /\ iterStart' = -1
  /\ stalls' = 0
  /\ lastDrive' = NoDrive
  /\ UNCHANGED <<source, smartVars>>

\* return results: the generator hands its rows to the caller; results, mds
\* and the locals of parseMDStat (lines, n, mdd) end with the call, and the
\* next call declares them anew
Return ==
  /\ pc = "done"
  /\ query \in Queries
  /\ calls + 1 < MaxCalls
  /\ calls' = calls + 1
  /\ prev' = [valid |-> TRUE, snap |-> result]
  /\ pc' = "idle"
  /\ query' = "none"
  /\ lines' = <<>>
  /\ n' = 0
  /\ result' = EmptyMDStat
  /\ mdd' = EmptyMDDevice
  /\ rows' = <<>>
  /\ di' = 0
  /\ dj' = 0
  /\ log' = <<>>
  /\ maxRead' = -1
  /\ iterStart' = -1
  /\ stalls' = 0
  /\ lastDrive' = NoDrive
  /\ UNCHANGED <<source, smartVars>>

\* the kernel rewrites the file between two calls
SourceChanges ==
  /\ pc = "idle"
  /\ calls > 0
  /\ prev.valid
  /\ \E s \in LaterSources : s # source /\ source' = s
  /\ prev' = NoPrev
  /\ UNCHANGED <<query, pc, lines, n, result, mdd, rows, di, dj, log, maxRead,
                 iterStart, stalls, lastDrive, calls, smartVars>>

\* ------------------------------------------------------------------------
\* Specification
\* ------------------------------------------------------------------------
Next ==
  \/ \E q \in Queries : Call(q)
  \/ LoopExit
  \/ Header
  \/ HeaderNoColon
  \/ Unused
  \/ Skip
  \/ Config
  \/ MetaConsume
  \/ MetaEnd
  \/ ReadFault
  \/ genMDDevices
  \/ DriveSkip
  \/ DriveThrow
  \/ DriveRow
  \/ DriveFault
  \/ DrivesDone
  \/ genMDPersonalities

Spec == Init /\ [][Next]_vars

NextCalls ==
  \/ Next
  \/ Return
  \/ SourceChanges

CallsSpec == InitCalls /\ [][NextCalls]_vars

\* the start of a SMART generator: any drivers, devices and client answers
InitSmart ==
  /\ source = [open |-> FALSE, text |-> <<>>]
  /\ IdleLocals
  /\ NoCalls
  /\ storageDrivers \in DriverLists
  /\ devs \in DevLists
  /\ lib \in LibAnswers
  /\ uid \in {0, 1000}
  /\ si = 0
  /\ NoDrivers

NextSmart ==
  \/ \E g \in SmartQueries : SmartCall(g)
  \/ WalkDev
  \/ WalkDone
  \/ \E g \in LegacyQueries : LegacyCall(g)
  \/ LegacyDev
  \/ LegacyDone

SmartSpec == InitSmart /\ [][NextSmart]_vars

\* getSmartCtlDeviceType on any list of driver names
InitType ==
  /\ source = [open |-> FALSE, text |-> <<>>]
  /\ IdleLocals
  /\ NoCalls
  /\ storageDrivers \in AnyDriverLists
  /\ devs = <<>>
  /\ lib = NoLib
  /\ uid = 0
  /\ si = 0
  /\ NoDrivers

NextType == DeviceType

TypeSpec == InitType /\ [][NextType]_vars

\* getStorageCtlerClassDrivers on any PCI devices
InitDrivers ==
  /\ source = [open |-> FALSE, text |-> <<>>]
  /\ IdleLocals
  /\ NoCalls
  /\ storageDrivers = <<>>
  /\ devs = <<>>
  /\ lib = NoLib
  /\ uid = 0
  /\ si = 0
  /\ ctl = NoCtl
  /\ pci \in PciInputs
  /\ pi = 0

NextDrivers ==
  \/ DriversCall
  \/ VisitPci
  \/ DriversDone

DriversSpec == InitDrivers /\ [][NextDrivers]_vars

\* ------------------------------------------------------------------------
\* Properties
\* ------------------------------------------------------------------------
\* C1: every iteration of the outer loop of parseMDStat ends with the cursor
\* n strictly greater than it was when the iteration started.
C1_CursorAdvances ==
  (pc = "loop" /\ iterStart >= 0) => n > iterStart

\* C2: every index parseMDStat uses on lines (lines[n] and the lines[n + 1]
\* of the configuration line and of the metadata lookahead) is smaller than
\* lines.size().
C2_ReadsInRange ==
  maxRead < Len(lines)

\* C3: for every drive token with a slot number, driveStatuses is read exactly
\* when 0 <= slot < length(driveStatuses) - 2 (and then at slot + 1, inside
\* the string); a slot outside that range gives a row without status and one
\* diagnostic.
C3_SlotBound ==
  LET inRange == 0 <= lastDrive.slot /\ lastDrive.slot < lastDrive.length - 2
  IN (lastDrive.row \/ lastDrive.read) =>
       /\ lastDrive.read <=> inRange
       /\ ~inRange => (lastDrive.row /\ lastDrive.warned = 1)

\* C4: parseMDStat and the three generators return normally on every input:
\* no exception leaves them.
C4_ReturnsNormally ==
  pc # "threw"

\* the well-formed five-line status text and the end of genMDDevices on it
Example == [open |-> TRUE, text |-> <<ExPers, ExHdr, ExCfg, ExResync, ExUnused>>]
ExampleDone == source = Example /\ query = "md_devices" /\ pc = "done"

\* the columns of the example row other than healthy_drives
ExampleColumns(r) ==
  /\ r["raid_level"] = ExRaidLevel
  /\ r["usable_size"] = ExUsable
  /\ r["resync_progress"] = ExProgress
  /\ r["resync_finish"] = ExFinish
  /\ r["resync_speed"] = ExSpeed

MetaKeys == {kRecoveryKey, kResyncKey, kCheckKey, kBitmapKey}
HasKey(l) == \E k \in MetaKeys : Find(l, k) # NPOS

\* the number of consecutive lines from index i on that carry a key
RECURSIVE RunLen(_)
RunLen(i) ==
  IF i < Len(lines) /\ HasKey(LineAt(i)) THEN 1 + RunLen(i + 1) ELSE 0

\* the value a field has after the run [from, from + len): the trimmed
\* remainder of the last line of the run that carries the key
FieldAfterRun(key, from, len) ==
  LET hits == {i \in from..(from + len - 1) : Find(LineAt(i), key) # NPOS}
  IN IF hits = {} THEN <<>> ELSE AfterKey(LineAt(SetMax(hits)), key)

\* the latest outer iteration handled an array block that has a
\* configuration line and has run to its end
BlockEnded ==
  /\ pc = "loop"
  /\ iterStart >= 0
  /\ iterStart + 1 < Len(lines)
  /\ firstTwo(LineAt(iterStart)) = kMD
  /\ Len(splitN(LineAt(iterStart), <<":">>, 1)) >= 2

\* C6: an array consumes, after its configuration line, exactly the maximal
\* run of following lines that carry one of the four keys, one cursor step per
\* line, each stored in its field; the cursor then stands on the first line
\* after the run.
C6_MetaRun ==
  BlockEnded =>
    LET run == RunLen(iterStart + 2)
        d == result.devices[Len(result.devices)]
    IN /\ n = iterStart + 2 + run
       /\ d.recovery = FieldAfterRun(kRecoveryKey, iterStart + 2, run)
       /\ d.resync = FieldAfterRun(kResyncKey, iterStart + 2, run)
       /\ d.checkArray = FieldAfterRun(kCheckKey, iterStart + 2, run)
       /\ d.bitmap = FieldAfterRun(kBitmapKey, iterStart + 2, run)

\* a line the classifier takes for neither an array header nor the trailer
Unrecognized(l) == firstTwo(l) # kMD /\ firstTwo(l) # kUN

\* C7: when the outer loop stands on a line that is neither "md" nor "un",
\* its step moves the cursor by one and changes neither the snapshot nor the
\* record under construction nor the lines: the parser meets the next line in
\* the state in which it met the unrecognized one, so the blocks and the
\* trailer after it are parsed as they would be from that state without it.
C7_SkipUnrecognized ==
  [][(pc = "loop" /\ n < Len(lines) /\ Unrecognized(LineAt(n))) =>
       (n' = n + 1 /\ result' = result /\ mdd' = mdd /\ pc' = "loop" /\
        lines' = lines)]_vars

C7_Witness ==
  /\ pc = "loop"
  /\ iterStart >= 0
  /\ Unrecognized(LineAt(iterStart))
  /\ n = iterStart + 1
  /\ n < Len(lines)
  /\ firstTwo(LineAt(n)) = kMD
  /\ result.devices # <<>>

\* what a header line says: name left of the first colon, then status,
\* raidLevel and the member tokens
HeaderExpect(d, line) ==
  LET colon == Find(line, <<":">>)
      left == Substr(line, 0, colon)
      right == SubstrFrom(line, colon + 1)
      tokens == split(right, IsSpace)
  IN /\ d.name = trimStr(left, SP)
     /\ IF Len(tokens) >= 2
        THEN /\ d.status = tokens[1]
             /\ d.raidLevel = tokens[2]
             /\ d.drives = SubSeq(tokens, 3, Len(tokens))
        ELSE /\ d.status = <<>>
             /\ d.raidLevel = <<>>
             /\ d.drives = <<>>

\* C8: for a header line with a colon the record gets name, status,
\* raidLevel and members as the line says (status, raidLevel and members
\* empty with fewer than two tokens right of the colon); the record is
\* produced and the cursor has moved past the header when the iteration ends.
C8_Header ==
  LET headerSeen == /\ iterStart >= 0
                    /\ firstTwo(LineAt(iterStart)) = kMD
                    /\ Find(LineAt(iterStart), <<":">>) # NPOS
  IN /\ (headerSeen /\ pc \in {"config", "meta"}) =>
          HeaderExpect(mdd, LineAt(iterStart))
     /\ (headerSeen /\ pc = "loop") =>
          /\ n > iterStart
          /\ result.devices # <<>>
          /\ HeaderExpect(result.devices[Len(result.devices)],
                          LineAt(iterStart))

\* what a configuration line says about the record
ConfigExpect(d, cl) ==
  LET t == split(cl, IsSpace)
      k == Len(t)
  IN IF k >= 4
     THEN /\ d.usableSize = t[1] \o <<SP>> \o t[2]
          /\ d.healthyDrives = t[k - 1]
          /\ d.driveStatuses = t[k]
          /\ d.other = Flatten([i \in 1..(k - 4) |-> <<SP>> \o t[i + 2]])
     ELSE /\ d.usableSize = <<>>
          /\ d.healthyDrives = <<>>
          /\ d.driveStatuses = <<>>
          /\ d.other = <<>>

\* C9: the line after the header of an array under construction is consumed
\* as the configuration line, exactly one line, whatever it holds (any line of
\* the pool, headers and trailers included): with k >= 4 tokens usableSize is
\* t1 " " t2, healthyDrives t(k-1), driveStatuses tk and other the tokens in
\* between, each after a space; with fewer than four the four fields stay
\* empty; the header's fields are kept.
C9_ConfigLine ==
  [][(pc = "config" /\ n + 1 < Len(lines)) =>
       /\ n' = n + 1
       /\ pc' = "meta"
       /\ ConfigExpect(mdd', LineAt(n + 1))
       /\ HeaderExpect(mdd', LineAt(n))]_vars

C9_Witness ==
  /\ pc = "meta"
  /\ n = iterStart + 1
  /\ n < Len(lines)
  /\ Len(split(LineAt(n), IsSpace)) > 4
  /\ mdd.other # <<>>
  /\ mdd.driveStatuses # <<>>

\* the line starts with the key
BeginsWith(l, key) == Len(l) >= Len(key) /\ SubSeq(l, 1, Len(key)) = key

\* C10: when line 0 does not begin with "Personalities :", personalities
\* stays empty and the outer loop starts at line 0; when it does, personalities
\* is the rest of line 0 and the loop starts at line 1.
C10_PersonalitiesLine ==
  (pc # "idle" /\ Len(lines) >= 1) =>
    IF BeginsWith(lines[1], kPersonalitiesKey)
    THEN /\ result.personalities = SubstrFrom(lines[1], Len(kPersonalitiesKey))
         /\ (iterStart = -1 /\ pc = "loop") => n = 1
    ELSE /\ result.personalities = <<>>
         /\ (iterStart = -1 /\ pc = "loop") => n = 0

\* the literal prefixes of the last two pieces of a progress string
kFinishPrefix == <<"f", "i", "n", "i", "s", "h", "=">>
kSpeedPrefix == <<"s", "p", "e", "e", "d", "=">>

\* the token without the literal prefix when it starts with it
StripPrefix(tok, prefix) ==
  IF BeginsWith(tok, prefix) THEN SubstrFrom(tok, Len(prefix)) ELSE tok

\* the progress strings of a device with the column prefix of each
ProgressOf(device) ==
  { <<device.recovery, "discovery">>, <<device.resync, "resync">>,
    <<device.checkArray, "check_array">> }

\* C11: in every row genMDDevices returns, a four-token progress string gives
\* <prefix>_finish as token 3 without the literal prefix "finish=" and
\* <prefix>_speed as token 4 without the literal prefix "speed="; a token
\* that does not start with the prefix is unchanged, and no character of the
\* value after the prefix is removed.
C11_LiteralPrefix ==
  (pc = "done" /\ query = "md_devices") =>
    \A i \in 1..Len(result.devices) :
      \A lp \in ProgressOf(result.devices[i]) :
        LET toks == split(lp[1], {SP})
        IN Len(toks) = 4 =>
             /\ rows[i][lp[2] \o "_finish"] = StripPrefix(toks[3], kFinishPrefix)
             /\ rows[i][lp[2] \o "_speed"] = StripPrefix(toks[4], kSpeedPrefix)

\* the line without its leading and trailing tab, CR, vertical-tab and space
StripBlank(line) ==
  LET first == FindFirstNotOf(line, kBlankChars)
      last == FindLastNotOf(line, kBlankChars)
  IN IF first = NPOS THEN <<>> ELSE SubSeq(line, first + 1, last + 1)

\* the stripped lines of a text, in order, without those that become empty
RECURSIVE StrippedLines(_)
StrippedLines(text) ==
  IF text = <<>> THEN <<>>
  ELSE LET l == StripBlank(Head(text))
       IN (IF l = <<>> THEN <<>> ELSE <<l>>) \o StrippedLines(Tail(text))

\* C12: getLines returns the lines of the source in their original order,
\* each with leading and trailing tab, CR, vertical-tab and space stripped,
\* without the lines that are empty after that stripping (so a header or
\* trailer indented with a tab is classified by its first two non-whitespace
\* characters).
C12_GetLinesStripsBlanks ==
  (pc # "idle" /\ source.open) => lines = StrippedLines(source.text)

\* the indices at which the outer loop meets a line, from index i on: an
\* array block is its header, the line after it and the run of keyed lines
RECURSIVE OuterStops(_)
OuterStops(i) ==
  IF i >= Len(lines) THEN <<>>
  ELSE IF firstTwo(LineAt(i)) = kMD
       THEN <<i>> \o OuterStops(i + 2 + RunLen(i + 2))
       ELSE <<i>> \o OuterStops(i + 1)

\* the indices of the first lines of the array blocks, in input order
BlockStarts ==
  LET first == IF lines # <<>> /\ Find(lines[1], kPersonalitiesKey) # NPOS
               THEN 1 ELSE 0
  IN SelectSeq(OuterStops(first), LAMBDA i : firstTwo(LineAt(i)) = kMD)

\* the text of the trailer: what follows the key on the last trailer line
TrailerText ==
  LET first == IF lines # <<>> /\ Find(lines[1], kPersonalitiesKey) # NPOS
               THEN 1 ELSE 0
      stops == SelectSeq(OuterStops(first),
                         LAMBDA i : firstTwo(LineAt(i)) = kUN)
  IN IF stops = <<>> THEN <<>>
     ELSE SubstrFrom(LineAt(stops[Len(stops)]), Len(kUnusedKey))

\* the columns of a row that come from the header, the configuration line
\* and the keyed lines of the block that starts at index b
OwnBlockColumns(r, d, b) ==
  /\ HeaderExpect(d, LineAt(b))
  /\ r.device_name = d.name
  /\ r.status = d.status
  /\ r.raid_level = d.raidLevel
  /\ (b + 2 + RunLen(b + 2) < Len(lines)) =>
        /\ ConfigExpect(d, LineAt(b + 1))
        /\ r.healthy_drives = d.healthyDrives
        /\ r.usable_size = d.usableSize
        /\ d.resync = FieldAfterRun(kResyncKey, b + 2, RunLen(b + 2))
        /\ d.recovery = FieldAfterRun(kRecoveryKey, b + 2, RunLen(b + 2))
        /\ d.checkArray = FieldAfterRun(kCheckKey, b + 2, RunLen(b + 2))
        /\ d.bitmap = FieldAfterRun(kBitmapKey, b + 2, RunLen(b + 2))
        /\ ("resync_progress" \in DOMAIN r) => d.resync # <<>>
        /\ ("discovery_progress" \in DOMAIN r) => d.recovery # <<>>
        /\ ("check_array_progress" \in DOMAIN r) => d.checkArray # <<>>
        /\ ("bitmap_on_mem" \in DOMAIN r) => d.bitmap # <<>>

C14_DriveRows ==
  [][AtDrive =>
       IF ~HasBrackets(CurDrive) THEN rows' = rows
       ELSE SlotOf(CurDrive).ok =>
              LET slot == SlotOf(CurDrive).val
                  statuses == CurDevice.driveStatuses
              IN /\ Len(rows') = Len(rows) + 1
                 /\ SubSeq(rows', 1, Len(rows)) = rows
                 /\ rows'[Len(rows')].md_device_name = CurDevice.name
                 /\ rows'[Len(rows')].drive_name = CurDrive
                 /\ (0 <= slot /\ slot < Len(statuses) - 2) =>
                      /\ "status" \in DOMAIN rows'[Len(rows')]
                      /\ rows'[Len(rows')].status =
                           IF statuses[slot + 2] = "U" THEN <<"1">>
                           ELSE <<"0">>]_vars

\* the source gives no line: it cannot be opened, is empty, or holds only
\* lines made of tab, CR, vertical-tab and space
NoLines(src) ==
  \/ ~src.open
  \/ \A i \in 1..Len(src.text) :
       \A j \in 1..Len(src.text[i]) : src.text[i][j] \in kBlankChars

\* C17: when the source gives no line, the line sequence is empty,
\* parseMDStat leaves the snapshot empty (no arrays, empty personalities,
\* empty unused) and the generator returns zero rows without failing.
C17_EmptyInput ==
  /\ []((pc # "idle" /\ NoLines(source)) =>
          /\ lines = <<>>
          /\ result = EmptyMDStat
          /\ rows = <<>>
          /\ pc \in {"project", "done"})
  /\ [][(pc = "project" /\ NoLines(source)) =>
          (pc' = "done" /\ rows' = <<>>)]_vars

\* a generator returned on a source that holds blank lines only
C17_Witness ==
  /\ pc = "done"
  /\ source.open
  /\ Len(source.text) > 1
  /\ NoLines(source)
  /\ rows = <<>>

\* the token starts with '[' and ends with ']'
Bracketed(tok) == Len(tok) >= 2 /\ tok[1] = "[" /\ tok[Len(tok)] = "]"

\* C18: genMDPersonalities returns one row per bracketed token of the
\* personalities string, in order, whose name is the token without its
\* surrounding '[' and ']' and with nothing else removed; a personalities
\* string with no tokens gives zero rows.
C18_PersonalityRows ==
  (pc = "done" /\ query = "md_personalities") =>
    LET toks == SelectSeq(split(result.personalities, IsSpace), Bracketed)
    IN rows = [i \in 1..Len(toks) |->
                 [name |-> SubSeq(toks[i], 2, Len(toks[i]) - 1)]]

kBitmapColumns == {"bitmap_on_mem", "bitmap_chunk_size", "bitmap_external_file"}

\* C19: for an array with a non-empty bitmap string the row is emitted; with
\* fewer than two comma segments none of the three bitmap columns is set;
\* otherwise bitmap_on_mem is the trimmed segment 0, bitmap_chunk_size the
\* trimmed segment 1, and bitmap_external_file is set exactly when a third
\* segment exists and contains "file:", to the trimmed text after that key.
C19_BitmapColumns ==
  (pc = "done" /\ query = "md_devices") =>
    /\ Len(rows) = Len(result.devices)
    /\ \A i \in 1..Len(rows) :
         LET segs == split(result.devices[i].bitmap, {","})
             r == rows[i]
         IN result.devices[i].bitmap # <<>> =>
              IF Len(segs) < 2 THEN DOMAIN r \cap kBitmapColumns = {}
              ELSE /\ r.bitmap_on_mem = BoostTrim(segs[1])
                   /\ r.bitmap_chunk_size = BoostTrim(segs[2])
                   /\ ("bitmap_external_file" \in DOMAIN r) <=>
                        (Len(segs) >= 3 /\ Find(segs[3], kFileKey) # NPOS)
                   /\ ("bitmap_external_file" \in DOMAIN r) =>
                        r.bitmap_external_file =
                          BoostTrim(SubstrFrom(segs[3],
                            Find(segs[3], kFileKey) + Len(kFileKey)))

\* a row of an array whose bitmap string has a third segment with the key
C19_Witness ==
  /\ pc = "done"
  /\ query = "md_devices"
  /\ Len(rows) = 1
  /\ result.devices[1].bitmap # <<>>
  /\ Len(split(result.devices[1].bitmap, {","})) = 3
  /\ "bitmap_external_file" \in DOMAIN rows[1]
  /\ rows[1].bitmap_external_file = <<"/", "b">>

\* the personalities text the first line of the current lines gives
PersonalitiesText ==
  IF lines # <<>> /\ Find(lines[1], kPersonalitiesKey) # NPOS
  THEN SubstrFrom(lines[1], Len(kPersonalitiesKey))
  ELSE <<>>

\* C16: in a call that follows an earlier call, with the source changed in
\* between or not, what the call returns comes from the source content at the
\* time of the call only: the lines are those read from the source now, the
\* snapshot has the personalities, the arrays and the trailer of these lines
\* and nothing of the earlier call, and the rows are the rows of this snapshot.
C16_NoCarryOver ==
  (calls > 0 /\ pc = "done") =>
    /\ lines = getLines(source)
    /\ result.personalities = PersonalitiesText
    /\ result.unused = TrailerText
    /\ Len(result.devices) = Len(BlockStarts)
    /\ \A k \in 1..Len(result.devices) :
         HeaderExpect(result.devices[k], LineAt(BlockStarts[k]))
    /\ query = "md_devices" =>
         /\ Len(rows) = Len(result.devices)
         /\ \A k \in 1..Len(rows) :
              /\ rows[k].device_name = result.devices[k].name
              /\ rows[k].unused_devices = TrailerText
    /\ query = "md_drives" =>
         \A k \in 1..Len(rows) :
           \E d \in 1..Len(result.devices) :
             /\ rows[k].md_device_name = result.devices[d].name
             /\ \E j \in 1..Len(result.devices[d].drives) :
                  rows[k].drive_name = result.devices[d].drives[j]
    /\ query = "md_personalities" =>
         Len(rows) = Len(split(PersonalitiesText, {SP}))

\* a second call on a source that changed after the first call returned rows
C16_Witness ==
  /\ calls > 0
  /\ pc = "done"
  /\ ~prev.valid
  /\ query = "md_devices"
  /\ Len(rows) = 2

\* C20: parseMDStat run twice on the same line sequence gives two snapshots
\* that are equal field for field.
C20_Deterministic ==
  (calls > 0 /\ prev.valid /\ pc \in {"project", "done"}) =>
    result = prev.snap

\* the device is one the generator asks the client about with an answer that
\* can give rows: in part_000 every device; under walkSmartDevices every
\* device when the controller type is empty, and with a hardware controller
\* every whole disk, provided some controller id is identified
Asked(dev) ==
  IF query \in LegacyQueries THEN TRUE
  ELSE LET t == getSmartCtlDeviceType(storageDrivers)
       IN /\ t.ret
          /\ \/ t.type = ""
             \/ /\ ~HasDigit(dev)
                /\ \E i \in 0..(t.count - 1) :
                     i \in lib.present /\ i \notin lib.idErr

\* C15: when getDevInfo or getDevVendorAttrs returns an error for a device,
\* genSmartDevInformation and genSmartDevVendorAttrs leave out the rows of
\* that device only: every other device of the list, earlier or later, has
\* its rows in the returned result.
C15_ErrorIsolation ==
  (pc = "done" /\ query \in SmartQueries \cup LegacyQueries) =>
    /\ \A k \in 1..Len(devs) :
         (Asked(devs[k]) /\ devs[k] \notin lib.infoErr) =>
           \E r \in 1..Len(rows) : rows[r].device_name = devs[k]
    /\ \A r \in 1..Len(rows) : rows[r].device_name \notin lib.infoErr

\* the smartctl prefix and the highest id of a supported hardware driver
HardwarePrefix(d) == IF d = "megaraid_sas" THEN "megaraid," ELSE "cciss,"
HardwareMaxID(d) == IF d = "megaraid_sas" THEN 127 ELSE 14

SeenDrivers(k) ==
  {pci.devices[h].DRIVER : h \in
     {g \in 1..k : /\ pci.devices[g].path
                   /\ pci.devices[g].ID_PCI_CLASS_FROM_DATABASE
                        = "Mass storage controller"}}

\* C22: after any sequence of PCI devices visited by
\* getStorageCtlerClassDrivers the result list is in ascending order and
\* holds each driver name of a mass storage controller exactly once: a
\* driver seen on several devices is there once, and devices of another
\* class add nothing.
C22_SortedOnce ==
  (query = "getStorageCtlerClassDrivers" /\ pc \in {"pci", "done"}) =>
    LET sd == storageDrivers
        visited == IF pci.handle THEN pi - 1 ELSE 0
    IN /\ \A k \in 1..(Len(sd) - 1) : StringLess(sd[k], sd[k + 1])
       /\ \A k, h \in 1..Len(sd) : sd[k] = sd[h] => k = h
       /\ {sd[k] : k \in 1..Len(sd)} = SeenDrivers(visited)

\* the walk is over: three mass storage controllers were visited, the second
\* one's driver had to go in front of the first one's, and the third ran the
\* driver of the first again
C22_Witness ==
  /\ query = "getStorageCtlerClassDrivers"
  /\ pc = "done"
  /\ Len(pci.devices) >= 3
  /\ \A k \in 1..3 :
       /\ pci.devices[k].path
       /\ pci.devices[k].ID_PCI_CLASS_FROM_DATABASE = "Mass storage controller"
  /\ pci.devices[1].DRIVER = "megaraid_sas"
  /\ pci.devices[2].DRIVER = "ahci"
  /\ pci.devices[3].DRIVER = "megaraid_sas"
  /\ storageDrivers = <<"ahci", "megaraid_sas">>

====
